---- MODULE Spec2Model ----
(***************************************************************************)
(* Model of the retail-inventory-platform decision core:                   *)
(*   - ReorderPointEngine (backend/core/optimization/reorder_engine.py)    *)
(*   - ProphetForecaster registry (backend/core/forecasting/models.py)     *)
(*     with the forecasting endpoints that touch it                        *)
(*     (backend/api/endpoints/forecasting.py), and the reorder endpoints   *)
(*     with their own forecaster and engine                                *)
(*     (backend/api/endpoints/inventory.py).                               *)
(*                                                                         *)
(* Numbers.  Forecasts, inventory levels, costs and budget caps are        *)
(* integers.  The code's float arithmetic is modelled by exact real        *)
(* arithmetic carried out on integers: a percentile is kept in tenths, a   *)
(* z-score in thousandths, and a square root is never evaluated: every     *)
(* comparison  a >= b*sqrt(w)  is decided as  a*a >= b*b*w  on             *)
(* arbitrary-size naturals (sequences of base-10000 digits), because the   *)
(* model checker's integers are 32 bits wide.                              *)
(*                                                                         *)
(* Optional values (Python None) are sequences: <<>> is None, <<v>> is v.  *)
(***************************************************************************)
EXTENDS Integers, Sequences, FiniteSets, TLC

VARIABLES
    config,               \* ReorderPointEngine.config (self.config)
    request,              \* arguments of the last generate_reorder_recommendation call
    result,               \* its outcome: a recommendation or the exception raised
    batch_request,        \* arguments of the last batch_reorder_recommendations call
    batch_result,         \* what that call returned
    models,               \* ProphetForecaster.models: model_key -> fitted model
    performance_metrics,  \* ProphetForecaster.performance_metrics: model_key -> metrics
    call,                 \* the last forecaster operation invoked, with its arguments
    reply,                \* its outcome
    inventory_forecaster  \* the ProphetForecaster instance of inventory.py

vars == <<config, request, result, batch_request, batch_result,
          models, performance_metrics, call, reply, inventory_forecaster>>

None == <<>>
Some(v) == <<v>>
IsNone(o) == o = <<>>
Val(o) == o[1]

(***************************************************************************)
(* Exact arithmetic on naturals of any size (little-endian base 10000).    *)
(***************************************************************************)
BigBase == 100 * 100

RECURSIVE ToBig(_)
ToBig(n) == IF n < BigBase THEN <<n>> ELSE <<n % BigBase>> \o ToBig(n \div BigBase)

RECURSIVE SumTo(_, _, _)
\* sum of f(i) for i in lo..hi, where f is a function
SumTo(f, lo, hi) == IF lo > hi THEN 0 ELSE f[lo] + SumTo(f, lo + 1, hi)

BigCoef(x, y, k) ==
    LET lo == IF k - Len(y) + 1 > 1 THEN k - Len(y) + 1 ELSE 1
        hi == IF k < Len(x) THEN k ELSE Len(x)
    IN  SumTo([i \in lo..hi |-> x[i] * y[k + 1 - i]], lo, hi)

RECURSIVE BigCarry(_, _, _)
BigCarry(c, i, carry) ==
    IF i > Len(c)
    THEN IF carry = 0 THEN <<>> ELSE ToBig(carry)
    ELSE LET t == c[i] + carry
         IN  <<t % BigBase>> \o BigCarry(c, i + 1, t \div BigBase)

RECURSIVE BigTrim(_)
BigTrim(x) ==
    IF Len(x) > 1 /\ x[Len(x)] = 0 THEN BigTrim(SubSeq(x, 1, Len(x) - 1)) ELSE x

BigMul(x, y) ==
    BigTrim(BigCarry([k \in 1..(Len(x) + Len(y) - 1) |-> BigCoef(x, y, k)], 1, 0))

RECURSIVE BigGeqFrom(_, _, _)
\* x >= y for trimmed x, y of equal length, comparing from digit i downwards
BigGeqFrom(x, y, i) ==
    IF i = 0 THEN TRUE
    ELSE IF x[i] # y[i] THEN x[i] > y[i]
    ELSE BigGeqFrom(x, y, i - 1)

BigGeq(x, y) ==
    IF Len(x) # Len(y) THEN Len(x) > Len(y) ELSE BigGeqFrom(x, y, Len(x))

\* a >= b * sqrt(w), for integers a, b >= 0, w >= 0
GeqRoot(a, b, w) ==
    IF a < 0 THEN FALSE
    ELSE BigGeq(BigMul(ToBig(a), ToBig(a)),
                BigMul(BigMul(ToBig(b), ToBig(b)), ToBig(w)))

\* a <= b * sqrt(w), for integers a, b >= 0, w >= 0
LeqRoot(a, b, w) ==
    IF a < 0 THEN TRUE
    ELSE BigGeq(BigMul(BigMul(ToBig(b), ToBig(b)), ToBig(w)),
                BigMul(ToBig(a), ToBig(a)))

RECURSIVE ISqrtFrom(_, _)
ISqrtFrom(w, r) == IF (r + 1) * (r + 1) > w THEN r ELSE ISqrtFrom(w, r + 1)
\* floor(sqrt(w))
ISqrt(w) == ISqrtFrom(w, 0)

\* ceil(a / b) and floor(a / b) for b > 0 (\div floors)
CeilDiv(a, b) == -((-a) \div b)
Max(a, b) == IF a >= b THEN a ELSE b
Min(a, b) == IF a <= b THEN a ELSE b

(***************************************************************************)
(* ReorderPointConfig.  service_level is kept in thousandths (950 = 0.95). *)
(* demand_during_lt is not a field of the dataclass; the engine reads it   *)
(* from self.config all the same, so the record carries whether the        *)
(* attribute exists on the object and, when it does, its value.            *)
(***************************************************************************)
Unset == [present |-> FALSE, value |-> None]
AttrNone == [present |-> TRUE, value |-> None]
Attr(v) == [present |-> TRUE, value |-> Some(v)]

ReorderPointConfig(sl, moq, cps, lt, lts, rpd, cap) ==
    [service_level |-> sl, min_order_quantity |-> moq, case_pack_size |-> cps,
     lead_time_days |-> lt, lead_time_std_days |-> lts, review_period_days |-> rpd,
     budget_cap |-> cap, demand_during_lt |-> Unset]

DefaultConfig == ReorderPointConfig(950, 1, 1, 7, 2, 1, None)

Ok(v) == [status |-> "ok", error |-> "", value |-> Some(v)]
Raise(e) == [status |-> "error", error |-> e, value |-> None]
IsOk(r) == r.status = "ok"

RECURSIVE Insert(_, _)
\* x put into the ascending sequence s
Insert(s, x) ==
    IF s = <<>> THEN <<x>>
    ELSE IF x < Head(s) THEN <<x>> \o s
    ELSE <<Head(s)>> \o Insert(Tail(s), x)

RECURSIVE Sorted(_)
Sorted(s) == IF s = <<>> THEN <<>> ELSE Insert(Sorted(Tail(s)), Head(s))

RECURSIVE Sum(_)
Sum(s) == IF s = <<>> THEN 0 ELSE Head(s) + Sum(Tail(s))

\* ten times np.percentile(s, 90): linear interpolation between the order
\* statistics around position 0.9 * (n - 1)
Percentile90x10(s) ==
    LET n == Len(s)
        srt == Sorted(s)
        lo == (9 * (n - 1)) \div 10
        r == (9 * (n - 1)) % 10
    IN  IF r = 0 THEN 10 * srt[lo + 1]
        ELSE 10 * srt[lo + 1] + r * (srt[lo + 2] - srt[lo + 1])

\* calculate_demand_during_lead_time without the length check: a forecast
\* shorter than the lead time is used as it is
calculate_demand_unchecked(daily_forecasts, lead_time_days) ==
    LET lt_forecasts == SubSeq(daily_forecasts, 1,
                               Min(lead_time_days, Len(daily_forecasts)))
        n == Len(lt_forecasts)
        total == Sum(lt_forecasts)
        sumsq == Sum([i \in 1..n |-> lt_forecasts[i] * lt_forecasts[i]])
    IN  Ok([n |-> n, total |-> total,
            p90_x10 |-> Percentile90x10(lt_forecasts),
            var_num |-> n * sumsq - total * total])

(***************************************************************************)
(* calculate_demand_during_lead_time.  The result holds                    *)
(*   p50_demand = total / n,  p90_demand = p90_x10 / 10,                    *)
(*   std_demand = sqrt(var_num) / n   (np.std: the population deviation),   *)
(*   total_demand = total.                                                  *)
(***************************************************************************)
calculate_demand_during_lead_time(daily_forecasts, lead_time_days) ==
    IF Len(daily_forecasts) < lead_time_days
    THEN Raise("ValueError")
    ELSE LET lt_forecasts == SubSeq(daily_forecasts, 1, lead_time_days)
             n == Len(lt_forecasts)
             total == Sum(lt_forecasts)
             sumsq == Sum([i \in 1..n |-> lt_forecasts[i] * lt_forecasts[i]])
         IN  Ok([n |-> n, total |-> total,
                 p90_x10 |-> Percentile90x10(lt_forecasts),
                 var_num |-> n * sumsq - total * total])

\* z_scores.get(service_level, 1.645), in thousandths
ZScore(service_level) ==
    CASE service_level = 900 -> 1280
      [] service_level = 950 -> 1645
      [] service_level = 990 -> 2326
      [] OTHER -> 1645

(***************************************************************************)
(* calculate_safety_stock.  std_demand comes as [var_num, n] (the value    *)
(* sqrt(var_num)/n).  The result is the real number coef*sqrt(w)/den:      *)
(*   z * sqrt(L*std^2 + d^2*lts^2) = z * sqrt(L*var_num + d^2*lts^2*n^2)/n *)
(* with L = self.config.lead_time_days, d = self.config.demand_during_lt.  *)
(* Reading an attribute the object does not have raises AttributeError.    *)
(***************************************************************************)
calculate_safety_stock(self_config, std_demand, lead_time_std, service_level) ==
    IF ~self_config.demand_during_lt.present
    THEN Raise("AttributeError")
    ELSE LET z_score == ZScore(service_level)
             d == IF IsNone(self_config.demand_during_lt.value) THEN 0
                  ELSE Val(self_config.demand_during_lt.value)
             n == std_demand.n
         IN  Ok([coef |-> z_score,
                 w |-> self_config.lead_time_days * std_demand.var_num
                       + d * d * lead_time_std * lead_time_std * n * n,
                 den |-> 1000 * n])

RECURSIVE LeastFrom(_, _, _, _, _, _)
\* the least m >= m0 with den*(10*L*m - p) >= 10*L*coef*sqrt(w)
LeastFrom(m0, den, L, p, coef, w) ==
    IF GeqRoot(den * (10 * L * m0 - p), 10 * L * coef, w) THEN m0
    ELSE LeastFrom(m0 + 1, den, L, p, coef, w)

(***************************************************************************)
(* calculate_reorder_point: max(0, ceil(d + ss + d * (review / L))) with   *)
(* d = p90_x10/10, ss = coef*sqrt(w)/den and L = self.config.lead_time_days*)
(***************************************************************************)
calculate_reorder_point(self_config, p90_x10, safety_stock, review_period_days) ==
    LET L == self_config.lead_time_days
        p == p90_x10 * (L + review_period_days)   \* 10*L*(d + review_demand)
        r == ISqrt(safety_stock.w)
        m0 == CeilDiv(p * safety_stock.den + 10 * L * safety_stock.coef * r,
                      10 * L * safety_stock.den)
    IN  Max(0, LeastFrom(m0, safety_stock.den, L, p, safety_stock.coef, safety_stock.w))

calculate_reorder_quantity(reorder_point, current_inventory, min_order_qty, case_pack_size) ==
    IF current_inventory >= reorder_point
    THEN 0
    ELSE LET needed_quantity == reorder_point - current_inventory
             reorder_qty == IF case_pack_size > 1
                            THEN CeilDiv(needed_quantity, case_pack_size) * case_pack_size
                            ELSE needed_quantity
         IN  Max(reorder_qty, min_order_qty)

\* current_inventory <= safety_stock, safety_stock the real coef*sqrt(w)/den
AtMostSafetyStock(current_inventory, safety_stock) ==
    LeqRoot(current_inventory * safety_stock.den, safety_stock.coef, safety_stock.w)

determine_urgency(current_inventory, reorder_point, safety_stock) ==
    IF AtMostSafetyStock(current_inventory, safety_stock) THEN "critical"
    ELSE IF 2 * current_inventory <= reorder_point THEN "high"
    ELSE IF current_inventory <= reorder_point THEN "medium"
    ELSE "low"

RECURSIVE FloorRootFrom(_, _)
FloorRootFrom(k, ss) ==
    IF LeqRoot((k + 1) * ss.den, ss.coef, ss.w) THEN FloorRootFrom(k + 1, ss) ELSE k
\* int(safety_stock)
IntOfRoot(ss) == FloorRootFrom((ss.coef * ISqrt(ss.w)) \div ss.den, ss)

\* int(a / b): float division, truncated towards zero
TruncDiv(a, b) == IF a >= 0 THEN a \div b ELSE -((-a) \div b)

Truthy(opt) == ~IsNone(opt) /\ Val(opt) # 0

(***************************************************************************)
(* _generate_reasoning: the parts of the text, in order.  The lead time    *)
(* the text mentions is self.config.lead_time_days.                        *)
(***************************************************************************)
generate_reasoning(self_config, current_inventory, reorder_point, safety_stock, reorder_qty, urgency) ==
    [parts |->
        (IF AtMostSafetyStock(current_inventory, safety_stock) THEN <<"Critical">>
         ELSE IF current_inventory <= reorder_point THEN <<"Reorder needed">>
         ELSE <<>>)
        \o <<"P90 demand", "Safety stock">>
        \o (IF reorder_qty > 0
            THEN <<"Recommended order">>
                 \o (IF urgency = "critical" THEN <<"URGENT">>
                     ELSE IF urgency = "high" THEN <<"Order soon">>
                     ELSE <<>>)
            ELSE <<"No reorder needed">>),
     lead_time_days |-> self_config.lead_time_days]

\* budget_check with the cap applied to the rounded-up quotient
budget_check_roundup(reorder_qty, urgency, unit_cost, budget_cap) ==
    LET total_cost == reorder_qty * unit_cost
    IN  IF Truthy(budget_cap) /\ total_cost > Val(budget_cap) /\ unit_cost # 0
        THEN LET qty == Min(reorder_qty, CeilDiv(Val(budget_cap), unit_cost))
             IN  Ok([reorder_qty |-> qty, total_cost |-> qty * unit_cost,
                     urgency |-> "high", clamped |-> TRUE])
        ELSE Ok([reorder_qty |-> reorder_qty, total_cost |-> total_cost,
                 urgency |-> urgency, clamped |-> FALSE])

(***************************************************************************)
(* The budget check of generate_reorder_recommendation (lines 252-261):    *)
(* from the quantity and urgency computed so far to the final quantity,    *)
(* total cost and urgency; clamped says whether the branch was taken.      *)
(***************************************************************************)
budget_check(reorder_qty, urgency, unit_cost, budget_cap) ==
    LET total_cost == reorder_qty * unit_cost
    IN  IF Truthy(budget_cap) /\ total_cost > Val(budget_cap)
        THEN IF unit_cost = 0
             THEN Raise("ZeroDivisionError")
             ELSE LET max_qty == TruncDiv(Val(budget_cap), unit_cost)
                      qty == Min(reorder_qty, max_qty)
                  IN  Ok([reorder_qty |-> qty, total_cost |-> qty * unit_cost,
                          urgency |-> "high", clamped |-> TRUE])
        ELSE Ok([reorder_qty |-> reorder_qty, total_cost |-> total_cost,
                 urgency |-> urgency, clamped |-> FALSE])

(***************************************************************************)
(* generate_reorder_recommendation.  Every exception of a step is logged   *)
(* and re-raised (lines 285-287), so the call's outcome is that exception. *)
(* Besides the fields of ReorderRecommendation the value records what the  *)
(* call computed on the way (reorder point inputs, the urgency before the  *)
(* budget check, whether the budget branch was taken).                     *)
(***************************************************************************)
generate_reorder_recommendation(self_config, product_id, store_id, current_inventory, daily_forecasts, unit_cost, cfg) ==
    LET local_config == IF IsNone(cfg) THEN self_config ELSE Val(cfg)
        lt == calculate_demand_during_lead_time(daily_forecasts,
                                                local_config.lead_time_days)
    IN  IF ~IsOk(lt) THEN lt
        ELSE
        LET lt_demand == Val(lt.value)
            ss == calculate_safety_stock(self_config, lt_demand,
                                         local_config.lead_time_std_days,
                                         local_config.service_level)
        IN  IF ~IsOk(ss) THEN ss
            ELSE
            LET safety_stock == Val(ss.value)
                reorder_point == calculate_reorder_point(
                    self_config, lt_demand.p90_x10, safety_stock,
                    local_config.review_period_days)
                reorder_qty == calculate_reorder_quantity(
                    reorder_point, current_inventory,
                    local_config.min_order_quantity, local_config.case_pack_size)
                urgency == determine_urgency(current_inventory, reorder_point,
                                             safety_stock)
                budget == budget_check(reorder_qty, urgency, unit_cost,
                                       local_config.budget_cap)
            IN  IF ~IsOk(budget) THEN budget
                ELSE
                LET b == Val(budget.value)
                IN  Ok([product_id |-> product_id,
                        store_id |-> store_id,
                        current_inventory |-> current_inventory,
                        reorder_point |-> reorder_point,
                        reorder_quantity |-> b.reorder_qty,
                        safety_stock |-> IntOfRoot(safety_stock),
                        demand_during_lt |-> TruncDiv(lt_demand.p90_x10, 10),
                        lead_time_days |-> local_config.lead_time_days,
                        service_level |-> local_config.service_level,
                        total_cost |-> b.total_cost,
                        urgency |-> b.urgency,
                        reasoning |-> generate_reasoning(
                            self_config, current_inventory, reorder_point,
                            safety_stock, b.reorder_qty, b.urgency),
                        safety_stock_exact |-> safety_stock,
                        urgency_before_budget |-> urgency,
                        quantity_before_budget |-> reorder_qty,
                        clamped |-> b.clamped])

(***************************************************************************)
(* Bounds and input sets of the single-call specification.                 *)
(***************************************************************************)
MaxInventory == 15
MaxMinOrder == 3
MaxCasePack == 3

Flat10 == [i \in 1..10 |-> 10]
Forecasts == {Flat10, <<4, 8, 6>>, <<0, 0, 0>>, <<-5, -5, -5>>}
UnitCosts == {0, 3, 10}
BudgetCaps == {None, Some(5), Some(50)}
LeadTimes == {3, 7}
LeadTimeStds == {0, 2}

\* the engine is constructed with a config object (line 53): the default
\* ReorderPointConfig(), or a caller's object that also carries the
\* demand_during_lt attribute (None or a number)
EngineConfigs ==
    {[DefaultConfig EXCEPT !.demand_during_lt = a] : a \in {Unset, AttrNone, Attr(5)}}

OverrideConfigs ==
    {ReorderPointConfig(950, moq, cps, lt, lts, 1, cap) :
        moq \in 1..MaxMinOrder, cps \in 1..MaxCasePack, lt \in LeadTimes,
        lts \in LeadTimeStds, cap \in BudgetCaps}

\* configs with a value out of range: service_level 1.5, lead_time_std_days
\* -1, min_order_quantity 0, review_period_days 0, budget_cap 0 and -5
InvalidConfigs ==
    {ReorderPointConfig(1500, 1, 1, 7, 2, 1, None),
     ReorderPointConfig(950, 1, 1, 7, -1, 1, None),
     ReorderPointConfig(950, 0, 1, 7, 2, 1, None),
     ReorderPointConfig(950, 1, 1, 7, 2, 0, None),
     ReorderPointConfig(950, 1, 1, 7, 2, 1, Some(0)),
     ReorderPointConfig(950, 1, 1, 3, 2, 1, Some(-5))}

\* configs that differ from the default in the service level only: the
\* tabulated 0.90 and 0.99, and 0.80 and 0.975, which the table lacks
ServiceLevelConfigs ==
    {ReorderPointConfig(sl, 1, 1, 7, 2, 1, None) : sl \in {800, 900, 975, 990}}

EmptyMap == [k \in {} |-> None]

EngineIdle == request = None /\ result = None
BatchIdle == batch_request = None /\ batch_result = None
RegistryIdle ==
    /\ models = EmptyMap
    /\ performance_metrics = EmptyMap
    /\ call = None
    /\ reply = None
    /\ inventory_forecaster = [models |-> EmptyMap, performance_metrics |-> EmptyMap]

Requests ==
    [product_id : {"p1"}, store_id : {"s1"},
     current_inventory : 0..MaxInventory,
     daily_forecasts : Forecasts,
     unit_cost : UnitCosts,
     config : {None} \cup {Some(c) : c \in OverrideConfigs \cup InvalidConfigs
                                                  \cup ServiceLevelConfigs}]

\* an engine as constructed, and the arguments of the call made on it
Init ==
    /\ config \in EngineConfigs
    /\ request \in Requests
    /\ result = None
    /\ BatchIdle
    /\ RegistryIdle

\* the call of generate_reorder_recommendation returns or raises
Recommend ==
    /\ result = None
    /\ result' = Some(generate_reorder_recommendation(
                        config, request.product_id, request.store_id,
                        request.current_inventory, request.daily_forecasts,
                        request.unit_cost, request.config))
    /\ UNCHANGED <<config, request, batch_request, batch_result,
                   models, performance_metrics, call, reply,
                   inventory_forecaster>>

Next == Recommend

Spec == Init /\ [][Next]_vars

(***************************************************************************)
(* Claims about a single call (specification Spec).                        *)
(***************************************************************************)
Returned == result # None /\ IsOk(Val(result))
Raised == result # None /\ ~IsOk(Val(result))
Rec == Val(Val(result).value)
LocalConfig == IF IsNone(request.config) THEN config ELSE Val(request.config)
UrgencyRank(u) ==
    CASE u = "critical" -> 0 [] u = "high" -> 1 [] u = "medium" -> 2 [] OTHER -> 3

\* C1: every returned recommendation has reorder_quantity = 0 exactly when
\* current_inventory >= reorder_point, the budget-clamped ones included.
C1_ZeroQuantityIffStocked ==
    Returned =>
        (Rec.reorder_quantity = 0 <=> request.current_inventory >= Rec.reorder_point)

\* C2: every returned recommendation has a reorder_quantity that is 0, or a
\* multiple of case_pack_size that is at least min_order_quantity.
C2_QuantityIsCasePackMultiple ==
    Returned =>
        \/ Rec.reorder_quantity = 0
        \/ /\ Rec.reorder_quantity % LocalConfig.case_pack_size = 0
           /\ Rec.reorder_quantity >= LocalConfig.min_order_quantity

\* C3: with a budget cap configured (a positive cap), a returned
\* recommendation has total_cost = reorder_quantity * unit_cost <= budget_cap,
\* and when the unclamped cost exceeds the cap and unit_cost > 0 the quantity
\* is floor(budget_cap / unit_cost).
C3_BudgetCapRespected ==
    (Returned /\ ~IsNone(LocalConfig.budget_cap) /\ Val(LocalConfig.budget_cap) > 0) =>
        LET cap == Val(LocalConfig.budget_cap)
        IN  /\ Rec.total_cost = Rec.reorder_quantity * request.unit_cost
            /\ Rec.total_cost <= cap
            /\ (Rec.quantity_before_budget * request.unit_cost > cap
                /\ request.unit_cost > 0)
                   => Rec.reorder_quantity = cap \div request.unit_cost

\* C3 witness: cap 50, unit cost 10, computed quantity 12: clamped to 5,
\* total cost 50.
C3_Witness ==
    /\ Returned
    /\ LocalConfig.budget_cap = Some(50)
    /\ request.unit_cost = 10
    /\ Rec.quantity_before_budget = 12
    /\ Rec.clamped
    /\ Rec.reorder_quantity = 5
    /\ Rec.total_cost = 50

\* C4: when the budget clamp fires the final urgency is at least high and
\* never lower than the urgency computed before the clamp.
C4_ClampNeverLowersUrgency ==
    (Returned /\ Rec.clamped) =>
        /\ Rec.urgency \in {"critical", "high"}
        /\ UrgencyRank(Rec.urgency) <= UrgencyRank(Rec.urgency_before_budget)

\* C5: ten forecasts of 10, lead time 7, service level 0.95 and otherwise the
\* default configuration on a default engine: the call returns a
\* recommendation with safety_stock 0 and reorder_point 12, and with
\* current_inventory 5 its reorder_quantity is 7 and its urgency high.
C5_Example1 ==
    (/\ config = DefaultConfig
     /\ request.daily_forecasts = Flat10
     /\ LocalConfig = DefaultConfig
     /\ result # None) =>
        /\ Returned
        /\ Rec.safety_stock = 0
        /\ Rec.reorder_point = 12
        /\ request.current_inventory = 5 =>
               (Rec.reorder_quantity = 7 /\ Rec.urgency = "high")

\* C16: a call with fewer forecasts than the lead_time_days of the config in
\* effect raises the insufficient-forecast error to its caller (the
\* ValueError of line 71); it returns no recommendation.
C16_ShortForecastRaises ==
    (result # None
     /\ Len(request.daily_forecasts) < LocalConfig.lead_time_days) =>
        /\ Raised
        /\ Val(result).error = "ValueError"

\* C16 witness: three forecasts against a lead time of seven days, and the
\* call has raised the ValueError.
C16_Witness ==
    /\ Raised
    /\ Val(result).error = "ValueError"
    /\ Len(request.daily_forecasts) = 3
    /\ LocalConfig.lead_time_days = 7

\* the ranges of the config options
ValidConfig(c) ==
    /\ c.service_level > 0 /\ c.service_level < 1000
    /\ c.lead_time_days >= 1
    /\ c.lead_time_std_days >= 0
    /\ c.min_order_quantity >= 1
    /\ c.case_pack_size >= 1
    /\ c.review_period_days >= 1
    /\ IsNone(c.budget_cap) \/ Val(c.budget_cap) > 0

\* C18: every returned recommendation has reorder_point, reorder_quantity,
\* safety_stock, demand_during_lt and total_cost >= 0, for every forecast
\* series the engine does not reject (the config being in range).
C18_QuantitiesNonNegative ==
    (Returned /\ ValidConfig(LocalConfig)) =>
        /\ Rec.reorder_point >= 0
        /\ Rec.reorder_quantity >= 0
        /\ Rec.safety_stock >= 0
        /\ Rec.demand_during_lt >= 0
        /\ Rec.total_cost >= 0

\* C20: a call given a config with an out-of-range value is rejected with
\* the invalid-config error; it returns no recommendation.
C20_InvalidConfigRejected ==
    (result # None /\ ~ValidConfig(LocalConfig)) =>
        /\ Raised
        /\ Val(result).error = "InvalidConfigError"

\* what step (a) of the request computed: the demand during the lead time
\* of the config in effect
StepA ==
    Val(calculate_demand_during_lead_time(request.daily_forecasts,
                                          LocalConfig.lead_time_days).value)

\* C22: a request whose forecast has at least lead_time_days entries gets
\* through the safety-stock step, and the safety stock is
\* z * sqrt(lead_time_days * std_demand^2 + D^2 * lead_time_std_days^2) with D
\* the p90 demand of step (a) of this request.  With std_demand =
\* sqrt(var_num)/n and D = p90_x10/10, and the stock kept as
\* coef*sqrt(w)/(1000*n), that is coef = z and
\* 100*w = 100*lead_time_days*var_num + p90_x10^2 * lead_time_std_days^2 * n^2.
C22_SafetyStockFromFreshDemand ==
    (result # None
     /\ Len(request.daily_forecasts) >= LocalConfig.lead_time_days
     /\ ValidConfig(LocalConfig)) =>
        /\ Returned \/ Val(result).error = "ZeroDivisionError"
        /\ Returned =>
             /\ Rec.safety_stock_exact.coef = ZScore(LocalConfig.service_level)
             /\ Rec.safety_stock_exact.den = 1000 * StepA.n
             /\ 100 * Rec.safety_stock_exact.w =
                  100 * LocalConfig.lead_time_days * StepA.var_num
                  + StepA.p90_x10 * StepA.p90_x10
                    * LocalConfig.lead_time_std_days * LocalConfig.lead_time_std_days
                    * StepA.n * StepA.n

\* C23: the reorder point is max(0, ceil(D + safety_stock + D *
\* review_period_days / lead_time_days)) with the lead time and review period
\* of the config in effect for the request (the override when one is given),
\* D the p90 demand of step (a) and safety_stock the one the call computed.
C23_ReorderPointUsesConfigInEffect ==
    (Returned /\ ValidConfig(LocalConfig)) =>
        Rec.reorder_point =
            calculate_reorder_point(LocalConfig, StepA.p90_x10,
                                    Rec.safety_stock_exact,
                                    LocalConfig.review_period_days)

\* C24: the z-score of the safety stock is 1.28, 1.645, 2.326 for the service
\* levels 0.90, 0.95, 0.99; for a level the table lacks it is not 1.645, and
\* it is below 1.28 for a level under 0.90 and between 1.645 and 2.326 for a
\* level between 0.95 and 0.99.
C24_ZScoreOfServiceLevel ==
    (Returned /\ ValidConfig(LocalConfig)) =>
        LET sl == LocalConfig.service_level
            z == Rec.safety_stock_exact.coef
        IN  /\ sl = 900 => z = 1280
            /\ sl = 950 => z = 1645
            /\ sl = 990 => z = 2326
            /\ sl < 900 => z < 1280
            /\ (sl > 950 /\ sl < 990) => (z > 1645 /\ z < 2326)

\* C28: a returned recommendation with reorder_quantity 0 that the budget
\* check did not clamp has urgency low.
C28_NothingToOrderIsLow ==
    (Returned /\ ValidConfig(LocalConfig)
     /\ Rec.reorder_quantity = 0 /\ ~Rec.clamped) =>
        Rec.urgency = "low"

InText(part) == \E i \in 1..Len(Rec.reasoning.parts) : Rec.reasoning.parts[i] = part

\* C29: the reasoning says "No reorder needed" exactly when reorder_quantity
\* is 0 and then does not say "Reorder needed"; it says "Critical" exactly
\* when the final urgency is critical; the lead time it mentions is the
\* lead_time_days of the recommendation.
C29_ReasoningMatchesFields ==
    (Returned /\ ValidConfig(LocalConfig)) =>
        /\ InText("No reorder needed") <=> Rec.reorder_quantity = 0
        /\ InText("No reorder needed") => ~InText("Reorder needed")
        /\ InText("Critical") <=> Rec.urgency = "critical"
        /\ Rec.reasoning.lead_time_days = Rec.lead_time_days

(***************************************************************************)
(* calculate_demand_during_lead_time on its own (specification SpecDemand):*)
(* request holds the two arguments of one call, result its outcome.        *)
(***************************************************************************)
MaxLeadTime == 11

DemandLevels == {0, 7}
DemandRequests ==
    [daily_forecasts : UNION {[1..n -> DemandLevels] : n \in 1..MaxLeadTime},
     lead_time_days : 1..MaxLeadTime]

InitDemand ==
    /\ config = DefaultConfig
    /\ request \in DemandRequests
    /\ result = None
    /\ BatchIdle
    /\ RegistryIdle

\* the call of calculate_demand_during_lead_time returns or raises
DemandDuringLeadTime ==
    /\ result = None
    /\ result' = Some(calculate_demand_during_lead_time(
                        request.daily_forecasts, request.lead_time_days))
    /\ UNCHANGED <<config, request, batch_request, batch_result,
                   models, performance_metrics, call, reply,
                   inventory_forecaster>>

NextDemand == DemandDuringLeadTime

SpecDemand == InitDemand /\ [][NextDemand]_vars

\* C17: for non-negative forecasts and 1 <= lead_time_days <= their number,
\* the call returns p90_demand >= p50_demand, the 90th percentile against
\* the mean of the first lead_time_days entries
\* (p90_x10 / 10 >= total / n).
C17_P90AtLeastMean ==
    Returned => Rec.p90_x10 * Rec.n >= 10 * Rec.total

(***************************************************************************)
(* batch_reorder_recommendations.                                          *)
(***************************************************************************)
\* urgency_order.get(x.urgency, 4)
urgency_order(u) ==
    CASE u = "critical" -> 0 [] u = "high" -> 1 [] u = "medium" -> 2
      [] u = "low" -> 3 [] OTHER -> 4

RECURSIVE batch_loop_break(_, _, _, _, _)
\* batch_loop with break in place of continue: the loop ends at the first
\* item that has no forecast or whose recommendation raises
batch_loop_break(self_config, inventory_data, forecast_data, configs, i) ==
    IF i > Len(inventory_data) THEN <<>>
    ELSE LET item == inventory_data[i]
             product_id == item.product_id
             store_id == IF IsNone(item.store_id) THEN "default" ELSE Val(item.store_id)
             rest == batch_loop_break(self_config, inventory_data, forecast_data,
                                      configs, i + 1)
         IN  IF product_id \notin DOMAIN forecast_data THEN <<>>
             ELSE LET cfg == IF ~IsNone(configs) /\ DOMAIN Val(configs) # {}
                                /\ product_id \in DOMAIN Val(configs)
                             THEN Some(Val(configs)[product_id])
                             ELSE None
                      r == generate_reorder_recommendation(
                               self_config, product_id, store_id,
                               item.current_inventory, forecast_data[product_id],
                               item.unit_cost, cfg)
                  IN  IF IsOk(r) THEN <<[index |-> i, rec |-> Val(r.value)]>> \o rest
                      ELSE <<>>

RECURSIVE batch_loop(_, _, _, _, _)
(***************************************************************************)
(* The loop of lines 335-359 from item i on: the recommendations appended, *)
(* each with the position of its item in inventory_data.  An item without  *)
(* a forecast is logged and skipped; an item whose recommendation raises   *)
(* is logged and skipped.                                                  *)
(***************************************************************************)
batch_loop(self_config, inventory_data, forecast_data, configs, i) ==
    IF i > Len(inventory_data) THEN <<>>
    ELSE LET item == inventory_data[i]
             product_id == item.product_id
             store_id == IF IsNone(item.store_id) THEN "default" ELSE Val(item.store_id)
             rest == batch_loop(self_config, inventory_data, forecast_data, configs, i + 1)
         IN  IF product_id \notin DOMAIN forecast_data THEN rest
             ELSE LET cfg == IF ~IsNone(configs) /\ DOMAIN Val(configs) # {}
                                /\ product_id \in DOMAIN Val(configs)
                             THEN Some(Val(configs)[product_id])
                             ELSE None
                      r == generate_reorder_recommendation(
                               self_config, product_id, store_id,
                               item.current_inventory, forecast_data[product_id],
                               item.unit_cost, cfg)
                  IN  IF IsOk(r) THEN <<[index |-> i, rec |-> Val(r.value)]>> \o rest
                      ELSE rest

RECURSIVE InsertByUrgency(_, _)
\* x put after every element whose urgency rank is not greater
InsertByUrgency(s, x) ==
    IF s = <<>> THEN <<x>>
    ELSE IF urgency_order(x.rec.urgency) < urgency_order(Head(s).rec.urgency)
         THEN <<x>> \o s
         ELSE <<Head(s)>> \o InsertByUrgency(Tail(s), x)

RECURSIVE InsertBeforeTies(_, _)
\* x put before the elements of equal urgency rank
InsertBeforeTies(s, x) ==
    IF s = <<>> THEN <<x>>
    ELSE IF urgency_order(x.rec.urgency) <= urgency_order(Head(s).rec.urgency)
         THEN <<x>> \o s
         ELSE <<Head(s)>> \o InsertBeforeTies(Tail(s), x)

RECURSIVE sort_ties_reversed(_)
\* a sort by urgency that does not keep the order of equal elements
sort_ties_reversed(s) ==
    IF s = <<>> THEN <<>>
    ELSE InsertBeforeTies(sort_ties_reversed(SubSeq(s, 1, Len(s) - 1)), s[Len(s)])

RECURSIVE sort_by_urgency(_)
\* recommendations.sort(key=...): list.sort is stable
sort_by_urgency(s) ==
    IF s = <<>> THEN <<>>
    ELSE InsertByUrgency(sort_by_urgency(SubSeq(s, 1, Len(s) - 1)), s[Len(s)])

\* what the call returns is the list recommendations; order holds, for each
\* returned recommendation, the position of its item in inventory_data
batch_reorder_recommendations(self_config, inventory_data, forecast_data, configs) ==
    LET appended == batch_loop(self_config, inventory_data, forecast_data, configs, 1)
        srt == sort_by_urgency(appended)
    IN  Ok([recommendations |-> [k \in 1..Len(srt) |-> srt[k].rec],
            order |-> [k \in 1..Len(srt) |-> srt[k].index]])

(***************************************************************************)
(* Bounds and input sets of the batch specification.                       *)
(***************************************************************************)
MaxBatch == 3

Products == {"p1", "p2", "p3"}
BatchInventories == {0, 8, 15}
Snapshots ==
    [product_id : Products, store_id : {Some("s1")},
     current_inventory : BatchInventories, unit_cost : {10}]
\* p3 has no forecast; p2's forecast is shorter than the default lead time
ForecastMaps ==
    {[p \in {"p1", "p2"} |-> IF p = "p1" THEN Flat10 ELSE <<4, 8, 6>>],
     [p \in Products |-> Flat10]}
ConfigMaps ==
    {None, Some([p \in {"p1"} |-> ReorderPointConfig(950, 1, 1, 7, 0, 1, Some(50))])}
BatchEngineConfigs ==
    {[DefaultConfig EXCEPT !.demand_during_lt = a] : a \in {Unset, AttrNone}}
BatchRequests ==
    [inventory_data : UNION {[1..n -> Snapshots] : n \in 0..MaxBatch},
     forecast_data : ForecastMaps,
     configs : ConfigMaps]

InitBatch ==
    /\ config \in BatchEngineConfigs
    /\ batch_request \in BatchRequests
    /\ batch_result = None
    /\ EngineIdle
    /\ RegistryIdle

\* the call of batch_reorder_recommendations returns
Batch ==
    /\ batch_result = None
    /\ batch_result' = Some(batch_reorder_recommendations(
                                config, batch_request.inventory_data,
                                batch_request.forecast_data, batch_request.configs))
    /\ UNCHANGED <<config, request, result, batch_request,
                   models, performance_metrics, call, reply,
                   inventory_forecaster>>

NextBatch == Batch

SpecBatch == InitBatch /\ [][NextBatch]_vars

(***************************************************************************)
(* Claims about a batch (specification SpecBatch).                         *)
(***************************************************************************)
BatchReturned == batch_result # None /\ IsOk(Val(batch_result))
BatchOut == Val(Val(batch_result).value)
Items == batch_request.inventory_data
HasForecast(i) == Items[i].product_id \in DOMAIN batch_request.forecast_data
\* the config the batch passes for item i (None: the engine default applies)
ItemConfig(i) ==
    IF ~IsNone(batch_request.configs)
       /\ Items[i].product_id \in DOMAIN Val(batch_request.configs)
    THEN Some(Val(batch_request.configs)[Items[i].product_id])
    ELSE None
\* the single call with the arguments the batch passes for item i
SingleCall(i) ==
    generate_reorder_recommendation(
        config, Items[i].product_id,
        IF IsNone(Items[i].store_id) THEN "default" ELSE Val(Items[i].store_id),
        Items[i].current_inventory,
        batch_request.forecast_data[Items[i].product_id],
        Items[i].unit_cost, ItemConfig(i))
ItemLeadTime(i) ==
    IF IsNone(ItemConfig(i)) THEN config.lead_time_days
    ELSE Val(ItemConfig(i)).lead_time_days

\* C6: the batch accounts for every input snapshot in what it returns: the
\* sizes of the returned collections add up to the number of snapshots.  The
\* call returns one collection, the list of recommendations (line 365).
C6_EverySnapshotAccounted ==
    batch_result # None =>
        /\ BatchReturned
        /\ Len(BatchOut.recommendations) = Len(Items)

\* C7: the batch always returns, and every snapshot whose forecast is present
\* with at least lead_time_days entries gets exactly the outcome of the single
\* call with the same arguments: that call's recommendation, once, and no
\* recommendation when that call raises; other items change nothing of it.
C7_BatchIsolatesItems ==
    batch_result # None =>
        /\ BatchReturned
        /\ \A i \in 1..Len(Items) :
              (HasForecast(i)
               /\ Len(batch_request.forecast_data[Items[i].product_id])
                      >= ItemLeadTime(i)) =>
                 LET at == {k \in 1..Len(BatchOut.order) : BatchOut.order[k] = i}
                     single == SingleCall(i)
                 IN  IF IsOk(single)
                     THEN /\ Cardinality(at) = 1
                          /\ \A k \in at :
                                BatchOut.recommendations[k] = Val(single.value)
                     ELSE at = {}

\* C7 witness: a snapshot without forecast, then one whose call raises
\* (forecast shorter than the lead time), then one that gets its
\* recommendation.
C7_Witness ==
    /\ BatchReturned
    /\ Len(Items) = 3
    /\ ~HasForecast(1)
    /\ HasForecast(2) /\ ~IsOk(SingleCall(2))
    /\ HasForecast(3) /\ IsOk(SingleCall(3))
    /\ Len(BatchOut.recommendations) = 1
    /\ BatchOut.recommendations[1] = Val(SingleCall(3).value)

\* C8: the returned recommendations are non-decreasing in urgency rank
\* (critical 0, high 1, medium 2, low 3), and two of equal urgency keep the
\* relative order of their snapshots in the input list.
C8_SortedStableByUrgency ==
    BatchReturned =>
        \A a, b \in 1..Len(BatchOut.recommendations) :
            a < b =>
                LET ra == UrgencyRank(BatchOut.recommendations[a].urgency)
                    rb == UrgencyRank(BatchOut.recommendations[b].urgency)
                IN  /\ ra <= rb
                    /\ ra = rb => BatchOut.order[a] < BatchOut.order[b]

\* C8 witness: three results, two of them of equal urgency, and the sort has
\* moved a later snapshot ahead of an earlier one.
C8_Witness ==
    /\ BatchReturned
    /\ Len(BatchOut.recommendations) = 3
    /\ \E a, b \in 1..3 :
          /\ a < b
          /\ BatchOut.recommendations[a].urgency = BatchOut.recommendations[b].urgency
    /\ \E a, b \in 1..3 : a < b /\ BatchOut.order[a] > BatchOut.order[b]

(***************************************************************************)
(* A batch for snapshots of several stores (specification SpecStores).     *)
(* The caller holds one (snapshot, forecast, config) triple per            *)
(* (product_id, store_id); batch_reorder_recommendations takes the         *)
(* forecasts and the configs as dicts keyed by product_id (lines 320-321,  *)
(* 339-351), which the caller fills item by item (inventory.py lines       *)
(* 136-167 and 173): a later item of the same product replaces the entry.  *)
(***************************************************************************)
\* {item["product_id"]: values[i] for i, item in enumerate(items)}
keyed_by_product(items, values) ==
    [p \in {items[i].product_id : i \in 1..Len(items)} |->
        values[CHOOSE i \in 1..Len(items) :
                  /\ items[i].product_id = p
                  /\ \A j \in (i + 1)..Len(items) : items[j].product_id # p]]

MaxTriples == 2
Flat20 == [i \in 1..10 |-> 20]
StoreSnapshots ==
    [product_id : {"p1", "p2"}, store_id : {Some("s1"), Some("s2")},
     current_inventory : {0, 15}, unit_cost : {10}]
Triples ==
    [snapshot : StoreSnapshots,
     forecast : {Flat10, Flat20},
     config : {ReorderPointConfig(950, 1, 1, 7, 0, 1, None),
               ReorderPointConfig(950, 1, 1, 3, 0, 1, None)}]
\* one triple per (product_id, store_id)
TripleLists ==
    {t \in UNION {[1..n -> Triples] : n \in 1..MaxTriples} :
        \A i, j \in 1..Len(t) :
            (i # j) => <<t[i].snapshot.product_id, t[i].snapshot.store_id>>
                       # <<t[j].snapshot.product_id, t[j].snapshot.store_id>>}

InitStores ==
    /\ config \in BatchEngineConfigs
    /\ batch_request \in [triples : TripleLists]
    /\ batch_result = None
    /\ EngineIdle
    /\ RegistryIdle

\* the triples are handed to batch_reorder_recommendations and it returns
BatchOfTriples ==
    /\ batch_result = None
    /\ LET t == batch_request.triples
           items == [i \in 1..Len(t) |-> t[i].snapshot]
       IN  batch_result' = Some(batch_reorder_recommendations(
               config, items,
               keyed_by_product(items, [i \in 1..Len(t) |-> t[i].forecast]),
               Some(keyed_by_product(items, [i \in 1..Len(t) |-> t[i].config]))))
    /\ UNCHANGED <<config, request, result, batch_request,
                   models, performance_metrics, call, reply,
                   inventory_forecaster>>

NextStores == BatchOfTriples

SpecStores == InitStores /\ [][NextStores]_vars

\* the single call for triple i with the forecast and the config of its own
\* (product_id, store_id)
OwnCall(i) ==
    LET t == batch_request.triples[i]
    IN  generate_reorder_recommendation(
            config, t.snapshot.product_id, Val(t.snapshot.store_id),
            t.snapshot.current_inventory, t.forecast, t.snapshot.unit_cost,
            Some(t.config))

\* C21: in a batch every snapshot is evaluated against the forecast and the
\* config of its own (product_id, store_id): what the batch returns for it is
\* the outcome of the single call with its own forecast and config, also when
\* another snapshot of the batch has the same product_id and another store_id.
C21_OwnStoreForecast ==
    batch_result # None =>
        /\ BatchReturned
        /\ \A i \in 1..Len(batch_request.triples) :
              LET at == {k \in 1..Len(BatchOut.order) : BatchOut.order[k] = i}
                  own == OwnCall(i)
              IN  IF IsOk(own)
                  THEN /\ Cardinality(at) = 1
                       /\ \A k \in at : BatchOut.recommendations[k] = Val(own.value)
                  ELSE at = {}

(***************************************************************************)
(* ProphetForecaster: the registry of fitted models and their metrics.     *)
(*                                                                         *)
(* A fitted Prophet object is kept as                                      *)
(*   history    the frame model.history (rows [ds, y]),                    *)
(*   fitted_on  the frame its parameters were last fitted to,              *)
(*   owner      the (product_id, store_id) of the train call that built it *)
(*              (bookkeeping of the model, the object does not hold it).   *)
(* Stored metrics record the frame of the fit they were computed from.     *)
(* Whether Prophet's fit and cross_validation return or raise is an input  *)
(* of each call.                                                           *)
(***************************************************************************)
MinTrainingRows == 30

\* model_key = f"{product_id}_{store_id}" if store_id else product_id
model_key(product_id, store_id) ==
    IF ~IsNone(store_id) /\ Val(store_id) # ""
    THEN product_id \o "_" \o Val(store_id)
    ELSE product_id

RECURSIVE InsertByDate(_, _)
\* row put into the frame s sorted by date, after the rows of the same date
InsertByDate(s, row) ==
    IF s = <<>> THEN <<row>>
    ELSE IF row.date >= s[Len(s)].date THEN Append(s, row)
    ELSE Append(InsertByDate(SubSeq(s, 1, Len(s) - 1), row), s[Len(s)])

RECURSIVE SortByDate(_)
SortByDate(s) ==
    IF s = <<>> THEN <<>>
    ELSE InsertByDate(SortByDate(SubSeq(s, 1, Len(s) - 1)), s[Len(s)])

\* prepare_data_for_prophet: sorted by date, columns ds and y, y >= 0
prepare_data_for_prophet(sales_data) ==
    LET df == SortByDate(sales_data)
    IN  [i \in 1..Len(df) |-> [ds |-> df[i].date, y |-> Max(df[i].quantity_sold, 0)]]

RECURSIVE drop_duplicates(_, _)
\* DataFrame.drop_duplicates(subset=['ds']): the first row of each ds is kept;
\* seen holds the ds values of the rows already kept
drop_duplicates(frame, seen) ==
    IF frame = <<>> THEN <<>>
    ELSE IF Head(frame).ds \in seen THEN drop_duplicates(Tail(frame), seen)
    ELSE <<Head(frame)>> \o drop_duplicates(Tail(frame), seen \cup {Head(frame).ds})

RECURSIVE MaxDs(_)
\* model.history['ds'].max()
MaxDs(frame) ==
    IF Len(frame) = 1 THEN frame[1].ds ELSE Max(frame[1].ds, MaxDs(Tail(frame)))

Put(map, k, v) == [x \in DOMAIN map \cup {k} |-> IF x = k THEN v ELSE map[x]]
Del(map, k) == [x \in DOMAIN map \ {k} |-> map[x]]

Registry(m, pm, r) == [models |-> m, performance_metrics |-> pm, reply |-> r]

(***************************************************************************)
(* ProphetForecaster.train.  The model is stored under its key (line 114)  *)
(* before cross_validation runs (line 117); the metrics are stored after   *)
(* it (line 129).                                                          *)
(***************************************************************************)
train(m, pm, sales_data, product_id, store_id, fit_ok, cv_ok) ==
    LET prophet_df == prepare_data_for_prophet(sales_data)
        key == model_key(product_id, store_id)
        model == [owner |-> <<product_id, store_id>>,
                  history |-> prophet_df, fitted_on |-> prophet_df]
        metrics == [computed_from |-> prophet_df]
    IN  IF Len(prophet_df) < MinTrainingRows
        THEN Registry(m, pm, Raise("ValueError: insufficient data"))
        ELSE IF ~fit_ok
        THEN Registry(m, pm, Raise("Exception: fit"))
        ELSE IF ~cv_ok
        THEN Registry(Put(m, key, model), pm, Raise("Exception: cross_validation"))
        ELSE Registry(Put(m, key, model), Put(pm, key, metrics),
                      Ok([product_id |-> product_id, store_id |-> store_id,
                          training_samples |-> Len(prophet_df),
                          performance_metrics |-> metrics]))

(***************************************************************************)
(* ProphetForecaster.forecast.  predicted is what model.predict returns    *)
(* for the horizon: one row [yhat, yhat_lower, yhat_upper] per day.  The   *)
(* value names the model it was computed from (its owner and the frame it  *)
(* was fitted to) and the first forecast date.  p90 is                     *)
(*   yhat + 1.28 * (yhat_upper - yhat_lower) / (2 * 1.96)                  *)
(*     = (49 * yhat + 16 * (yhat_upper - yhat_lower)) / 49,                *)
(* kept as its numerator p90_x49.                                          *)
(***************************************************************************)
forecast(m, pm, product_id, horizon_days, store_id, predicted) ==
    LET key == model_key(product_id, store_id)
    IN  IF key \notin DOMAIN m
        THEN Registry(m, pm, Raise("ValueError: no trained model"))
        ELSE Registry(m, pm,
                      Ok([product_id |-> product_id, store_id |-> store_id,
                          owner |-> m[key].owner,
                          fitted_on |-> m[key].fitted_on,
                          first_date |-> MaxDs(m[key].history) + 1,
                          forecast_horizon_days |-> horizon_days,
                          p50_forecast |->
                              [i \in 1..horizon_days |-> predicted[i].yhat],
                          p05_forecast |->
                              [i \in 1..horizon_days |-> predicted[i].yhat_lower],
                          p95_forecast |->
                              [i \in 1..horizon_days |-> predicted[i].yhat_upper],
                          p90_x49 |->
                              [i \in 1..horizon_days |->
                                  49 * predicted[i].yhat
                                  + 16 * (predicted[i].yhat_upper
                                          - predicted[i].yhat_lower)]]))

get_model_performance(m, pm, product_id, store_id) ==
    LET key == model_key(product_id, store_id)
    IN  IF key \notin DOMAIN pm
        THEN Registry(m, pm, Raise("ValueError: no performance metrics"))
        ELSE Registry(m, pm, Ok(pm[key]))

(***************************************************************************)
(* ProphetForecaster.update_model.  The stored object's history is         *)
(* replaced by the merged frame (line 287) before the refit (line 288).    *)
(***************************************************************************)
update_model(m, pm, product_id, new_sales_data, store_id, fit_ok, cv_ok) ==
    LET key == model_key(product_id, store_id)
    IN  IF key \notin DOMAIN m
        THEN Registry(m, pm, Raise("ValueError: no existing model"))
        ELSE
        LET new_prophet_df == prepare_data_for_prophet(new_sales_data)
            merged == drop_duplicates(m[key].history \o new_prophet_df, {})
            extended == [m[key] EXCEPT !.history = merged]
            refitted == [extended EXCEPT !.fitted_on = merged]
            metrics == [computed_from |-> merged]
        IN  IF ~fit_ok
            THEN Registry(Put(m, key, extended), pm, Raise("Exception: fit"))
            ELSE IF ~cv_ok
            THEN Registry(Put(m, key, refitted), pm,
                          Raise("Exception: cross_validation"))
            ELSE Registry(Put(m, key, refitted), Put(pm, key, metrics),
                          Ok([product_id |-> product_id, store_id |-> store_id,
                              update_samples |-> Len(new_prophet_df),
                              total_samples |-> Len(merged),
                              performance_metrics |-> metrics]))

(***************************************************************************)
(* delete_forecasting_model (the endpoint): the 404 raised for a missing   *)
(* key is an Exception, caught at line 278 and answered as a 500.          *)
(***************************************************************************)
delete_forecasting_model(m, pm, product_id, store_id) ==
    LET key == model_key(product_id, store_id)
    IN  IF key \notin DOMAIN m
        THEN Registry(m, pm, Raise("HTTPException: 500"))
        ELSE Registry(Del(m, key), Del(pm, key), Ok([message |-> "deleted"]))

(***************************************************************************)
(* The endpoints of inventory.py.  They read the module's own forecaster   *)
(* (line 20), here f = [models, performance_metrics], and its own engine   *)
(* (line 19).  Every exception inside a handler, the HTTPException it      *)
(* raises itself included, is caught by its `except Exception` and         *)
(* answered as a 500 whose detail quotes the cause.                        *)
(***************************************************************************)
\* [10] * 30
MockForecast == [i \in 1..30 |-> 10]

\* forecast['p90_forecast'] of a returned forecast
p90_forecast(value) ==
    [i \in 1..Len(value.p90_x49) |-> value.p90_x49[i] \div 49]

\* lines 136-167 for one item: the series put into forecast_data and where it
\* comes from
item_forecast(f, item, predicted) ==
    IF model_key(item.product_id, item.store_id) \in DOMAIN f.models
    THEN LET r == forecast(f.models, f.performance_metrics, item.product_id,
                           30, item.store_id, predicted).reply
         IN  IF IsOk(r)
             THEN [series |-> p90_forecast(Val(r.value)), source |-> "model"]
             ELSE [series |-> MockForecast, source |-> "mock"]
    ELSE [series |-> MockForecast, source |-> "mock"]

\* get_reorder_recommendations; the answer also names, item by item, where
\* the forecast came from
get_reorder_recommendations(engine_config, f, inventory_items, cfg, predicted) ==
    IF inventory_items = <<>>
    THEN Raise("HTTPException: 500 (400: inventory_items is required)")
    ELSE LET got == [i \in 1..Len(inventory_items) |->
                        item_forecast(f, inventory_items[i], predicted)]
             forecast_data ==
                 keyed_by_product(inventory_items,
                                  [i \in 1..Len(got) |-> got[i].series])
             configs ==
                 keyed_by_product(inventory_items,
                                  [i \in 1..Len(got) |-> cfg])
             recommendations ==
                 batch_reorder_recommendations(engine_config, inventory_items,
                                               forecast_data, Some(configs))
         IN  Ok([result |-> Val(recommendations.value).recommendations,
                 source |-> [i \in 1..Len(got) |-> got[i].source]])

\* calculate_reorder_points; source as in get_reorder_recommendations
calculate_reorder_points(engine_config, f, product_id, store_id, current_inventory, unit_cost, cfg, predicted) ==
    IF product_id = ""
    THEN Raise("HTTPException: 500 (400: product_id is required)")
    ELSE IF model_key(product_id, store_id) \notin DOMAIN f.models
    THEN Raise("HTTPException: 500 (404: No trained model found)")
    ELSE LET r == forecast(f.models, f.performance_metrics, product_id, 30,
                           store_id, predicted).reply
         IN  IF ~IsOk(r) THEN Raise("HTTPException: 500 (" \o r.error \o ")")
             ELSE LET daily_forecasts == p90_forecast(Val(r.value))
                      rec == generate_reorder_recommendation(
                                 engine_config, product_id, store_id,
                                 current_inventory, daily_forecasts, unit_cost,
                                 Some(cfg))
                  IN  IF daily_forecasts = <<>>
                      THEN Raise("HTTPException: 500 (500: No forecast data available)")
                      ELSE IF ~IsOk(rec)
                      THEN Raise("HTTPException: 500 (" \o rec.error \o ")")
                      ELSE Ok([recommendation |-> Val(rec.value),
                               source |-> <<"model">>])

(***************************************************************************)
(* The forecaster under calls.  The two identities below are distinct and  *)
(* have the same key string "a_b".                                         *)
(***************************************************************************)
DailySales(first, last, q) ==
    [i \in 1..(last - first + 1) |-> [date |-> first + i - 1, quantity_sold |-> q]]

Identities == {<<"a", Some("b")>>, <<"a_b", None>>}
\* MinTrainingRows rows, the last day reported twice
RepeatedDay ==
    DailySales(1, MinTrainingRows - 1, 5)
    \o <<[date |-> MinTrainingRows - 1, quantity_sold |-> 5]>>
TrainingSets ==
    {DailySales(1, MinTrainingRows, 5), DailySales(1, MinTrainingRows - 1, 5),
     RepeatedDay}
\* what Prophet predicts for the horizon: yhat_lower <= yhat_upper, and
\* nothing keeps a prediction above zero
Predictions ==
    {<<[yhat |-> 5, yhat_lower |-> 2, yhat_upper |-> 9],
       [yhat |-> 6, yhat_lower |-> 3, yhat_upper |-> 8]>>,
     <<[yhat |-> -2, yhat_lower |-> -6, yhat_upper |-> 3]>>}
UpdateSets == {DailySales(MinTrainingRows, MinTrainingRows + 1, 9)}
\* what Prophet predicts for the 30 days the inventory endpoints ask for
MonthPrediction == [i \in 1..30 |-> [yhat |-> 50, yhat_lower |-> 26, yhat_upper |-> 75]]
\* the request the inventory endpoints get for an identity: one snapshot,
\* and the config built from an empty "config" object (lines 125-132)
EndpointItem(id) ==
    [product_id |-> id[1], store_id |-> id[2], current_inventory |-> 5, unit_cost |-> 10]
EndpointConfig == ReorderPointConfig(950, 1, 1, 7, 2, 1, None)

\* the strings without '_' that the identities are made of, and the strings
\* that can stand before the last '_' of a key
Segments == {"a", "b"}
Prefixes == Segments \cup {id[1] : id \in Identities}
\* model_key.rsplit('_', 1) when '_' is in model_key, else (model_key, None):
\* the part after the last '_' has no '_'
rsplit(key) ==
    LET cuts == {c \in Prefixes \X Segments : c[1] \o "_" \o c[2] = key}
    IN  IF cuts # {}
        THEN LET c == CHOOSE c \in cuts : TRUE IN <<c[1], Some(c[2])>>
        ELSE <<key, None>>

\* list_trained_models (forecasting.py): one entry per key of models
list_trained_models(m, pm) ==
    Registry(m, pm,
             Ok([total_models |-> Cardinality(DOMAIN m),
                 models |-> {[product_id |-> rsplit(k)[1],
                              store_id |-> rsplit(k)[2],
                              model_key |-> k,
                              has_performance_metrics |-> k \in DOMAIN pm]
                             : k \in DOMAIN m}]))

Call(op, id, data) ==
    Some([op |-> op, product_id |-> id[1], store_id |-> id[2], data |-> data])

Step(op, id, data, after) ==
    /\ call' = Call(op, id, data)
    /\ models' = after.models
    /\ performance_metrics' = after.performance_metrics
    /\ reply' = Some(after.reply)
    /\ UNCHANGED <<config, request, result, batch_request, batch_result,
                   inventory_forecaster>>

InitRegistry ==
    /\ config = DefaultConfig
    /\ EngineIdle
    /\ BatchIdle
    /\ RegistryIdle

Train ==
    \E id \in Identities, sales_data \in TrainingSets, fit_ok \in BOOLEAN, cv_ok \in BOOLEAN :
        Step("train", id, sales_data,
             train(models, performance_metrics, sales_data, id[1], id[2], fit_ok, cv_ok))

Forecast ==
    \E id \in Identities, predicted \in Predictions :
        Step("forecast", id, <<>>,
             forecast(models, performance_metrics, id[1], Len(predicted), id[2],
                      predicted))

GetModelPerformance ==
    \E id \in Identities :
        Step("get_model_performance", id, <<>>,
             get_model_performance(models, performance_metrics, id[1], id[2]))

UpdateModel ==
    \E id \in Identities, new_sales_data \in UpdateSets, fit_ok \in BOOLEAN, cv_ok \in BOOLEAN :
        Step("update_model", id, new_sales_data,
             update_model(models, performance_metrics, id[1], new_sales_data, id[2],
                          fit_ok, cv_ok))

DeleteModel ==
    \E id \in Identities :
        Step("delete", id, <<>>,
             delete_forecasting_model(models, performance_metrics, id[1], id[2]))

ListTrainedModels ==
    Step("list_trained_models", <<"", None>>, <<>>,
         list_trained_models(models, performance_metrics))

ReorderRecommendations ==
    \E id \in Identities :
        Step("get_reorder_recommendations", id, <<>>,
             Registry(models, performance_metrics,
                      get_reorder_recommendations(
                          config, inventory_forecaster, <<EndpointItem(id)>>,
                          EndpointConfig, MonthPrediction)))

CalculateReorderPoints ==
    \E id \in Identities :
        Step("calculate_reorder_points", id, <<>>,
             Registry(models, performance_metrics,
                      calculate_reorder_points(
                          config, inventory_forecaster, id[1], id[2],
                          EndpointItem(id).current_inventory,
                          EndpointItem(id).unit_cost, EndpointConfig,
                          MonthPrediction)))

NextRegistry ==
    \/ Train
    \/ Forecast
    \/ GetModelPerformance
    \/ UpdateModel
    \/ DeleteModel
    \/ ListTrainedModels
    \/ ReorderRecommendations
    \/ CalculateReorderPoints

SpecRegistry == InitRegistry /\ [][NextRegistry]_vars

(***************************************************************************)
(* Claims about the registry.                                              *)
(***************************************************************************)
Caller == <<Val(call).product_id, Val(call).store_id>>
CallerNext == <<Val(call').product_id, Val(call').store_id>>
Answer == Val(reply)
AnswerNext == Val(reply')

\* the identity has a stored model: one built by a train call for it
HasStoredModel(id, m) == \E k \in DOMAIN m : m[k].owner = id

\* C9: a train or delete call for one identity leaves every stored model of
\* another identity in place and unchanged, and a forecast that succeeds was
\* computed from a model trained for the calling identity.
C9_IdentitiesNeverShareModel ==
    [][ /\ Val(call').op \in {"train", "delete"} =>
              \A k \in DOMAIN models :
                  models[k].owner # CallerNext =>
                      k \in DOMAIN models' /\ models'[k] = models[k]
        /\ (Val(call').op = "forecast" /\ IsOk(AnswerNext)) =>
              Val(AnswerNext.value).owner = CallerNext ]_vars

\* C10: forecast, update_model and get_model_performance called for an
\* identity that has no stored model answer with their not-found error and
\* leave models and performance_metrics as they were.
C10_MissingModelIsNotFound ==
    [][ (/\ Val(call').op \in {"forecast", "update_model", "get_model_performance"}
         /\ ~HasStoredModel(CallerNext, models)) =>
            /\ ~IsOk(AnswerNext)
            /\ AnswerNext.error \in {"ValueError: no trained model",
                                     "ValueError: no existing model",
                                     "ValueError: no performance metrics"}
            /\ models' = models
            /\ performance_metrics' = performance_metrics ]_vars

CallKey == model_key(Val(call).product_id, Val(call).store_id)
CallKeyNext == model_key(Val(call').product_id, Val(call').store_id)
DistinctDates(sales_data) ==
    Cardinality({sales_data[i].date : i \in 1..Len(sales_data)})

\* C11: a train call whose history has fewer than 30 distinct dates (rows of
\* one date counted once) fails with the insufficient-data error and stores
\* nothing.
C11_FewDatesRejected ==
    [][ (/\ Val(call').op = "train"
         /\ DistinctDates(Val(call').data) < MinTrainingRows) =>
            /\ ~IsOk(AnswerNext)
            /\ AnswerNext.error = "ValueError: insufficient data"
            /\ models' = models
            /\ performance_metrics' = performance_metrics ]_vars

\* C12: after an update that succeeds the stored history has one row per
\* date, and for a date that the stored history and the new observations
\* both have, the quantity kept is the new one.
C12_UpdateKeepsNewObservation ==
    [][ (Val(call').op = "update_model" /\ IsOk(AnswerNext)) =>
            LET old == models[CallKeyNext].history
                h == models'[CallKeyNext].history
                new == Val(call').data
            IN  /\ \A i, j \in 1..Len(h) : i # j => h[i].ds # h[j].ds
                /\ \A n \in 1..Len(new) :
                      (\E o \in 1..Len(old) : old[o].ds = new[n].date) =>
                          \E i \in 1..Len(h) :
                              /\ h[i].ds = new[n].date
                              /\ h[i].y = new[n].quantity_sold ]_vars

\* C13: delete removes the model and the metrics of its key, and a delete
\* for a key without a model signals no error and leaves the registry as it
\* was.
C13_DeleteIdempotent ==
    [][ Val(call').op = "delete" =>
            /\ IsOk(AnswerNext)
            /\ CallKeyNext \notin DOMAIN models'
            /\ CallKeyNext \notin DOMAIN performance_metrics'
            /\ CallKeyNext \notin DOMAIN models =>
                  (models' = models /\ performance_metrics' = performance_metrics)
      ]_vars

\* C14: no update is lost.  Every update that completes leaves each of its
\* observations in the stored history, drops no date that was there, and
\* the stored model is fitted to that history; so after two completed
\* updates of a key the history and the fit hold the observations of both.
\* (Handlers run one at a time on the event loop: every step of the
\* specification is one whole operation.)
C14_NoLostUpdate ==
    [][ (Val(call').op = "update_model" /\ IsOk(AnswerNext)) =>
            LET old == models[CallKeyNext].history
                after == models'[CallKeyNext]
                new == Val(call').data
            IN  /\ \A n \in 1..Len(new) :
                      \E i \in 1..Len(after.history) :
                          after.history[i] = [ds |-> new[n].date,
                                              y |-> new[n].quantity_sold]
                /\ \A o \in 1..Len(old) :
                      \E i \in 1..Len(after.history) :
                          after.history[i].ds = old[o].ds
                /\ after.fitted_on = after.history ]_vars

\* C15: a forecast is computed from a fully fitted model version: the model
\* it reads has the history it was fitted to, never a history an update has
\* extended without the refit (the first forecast date follows the last date
\* of the fitted frame).
C15_ForecastFromFittedVersion ==
    (call # None /\ Val(call).op = "forecast" /\ IsOk(Answer)) =>
        Val(Answer.value).first_date = MaxDs(Val(Answer.value).fitted_on) + 1

\* C19: every p50, p05, p95 and p90 value of a returned forecast is >= 0,
\* and p90 >= p50 on every day.
C19_ForecastClampedAtZero ==
    (call # None /\ Val(call).op = "forecast" /\ IsOk(Answer)) =>
        LET f == Val(Answer.value)
        IN  \A i \in 1..f.forecast_horizon_days :
                /\ f.p50_forecast[i] >= 0
                /\ f.p05_forecast[i] >= 0
                /\ f.p95_forecast[i] >= 0
                /\ f.p90_x49[i] >= 0
                /\ f.p90_x49[i] >= 49 * f.p50_forecast[i]

\* C25: train and update_model are atomic with respect to failure: when one
\* of them raises, the stored models (history included) and the stored
\* metrics are exactly what they were before the call.
C25_FailureLeavesRegistry ==
    [][ (Val(call').op \in {"train", "update_model"} /\ ~IsOk(AnswerNext)) =>
            /\ models' = models
            /\ performance_metrics' = performance_metrics ]_vars

\* C26: in every state the keys that have a stored model are the keys that
\* have stored metrics, and the metrics of a key were computed from the
\* model stored under it (from the data that model is fitted to).
C26_MetricsBelongToStoredModel ==
    /\ DOMAIN models = DOMAIN performance_metrics
    /\ \A k \in DOMAIN models \cap DOMAIN performance_metrics :
          performance_metrics[k].computed_from = models[k].fitted_on

\* the key of the call has a model and metrics stored by a train call for the
\* calling identity
TrainedFor(id, m, pm) ==
    LET key == model_key(id[1], id[2])
    IN  key \in DOMAIN m /\ key \in DOMAIN pm /\ m[key].owner = id

\* C27: once a key has been trained through the forecasting endpoint, a
\* reorder-recommendation or reorder-point request for that key is computed
\* from that model's forecast: the forecast of no item is the mock series of
\* 10 a day, and the answer is not that no trained model exists.
C27_InventoryUsesTrainedModel ==
    [][ (/\ Val(call').op \in {"get_reorder_recommendations",
                               "calculate_reorder_points"}
         /\ TrainedFor(CallerNext, models, performance_metrics)) =>
            /\ IsOk(AnswerNext) =>
                  \A i \in 1..Len(Val(AnswerNext.value).source) :
                      Val(AnswerNext.value).source[i] = "model"
            /\ ~IsOk(AnswerNext) =>
                  AnswerNext.error # "HTTPException: 500 (404: No trained model found)"
      ]_vars

\* C30: the listing has, for every stored model, the (product_id, store_id)
\* it was trained with, and nothing else.
C30_ListingNamesTrainedIdentities ==
    (call # None /\ Val(call).op = "list_trained_models") =>
        /\ IsOk(Answer)
        /\ {<<e.product_id, e.store_id>> : e \in Val(Answer.value).models}
              = {models[k].owner : k \in DOMAIN models}

====
